---- MODULE Spec2Model ----
(***************************************************************************)
(* uds::tunnel::Connection (src/uds/uds/tunnel/Connection.cpp).            *)
(*                                                                         *)
(* One Connection, its two logical transports, its remote socket, its      *)
(* resolver and its keep-alive timer.  Every completion handler is one     *)
(* action (handlers of one Connection are serialized on its context); the  *)
(* public Dispose/Close is entered by two callers and is split at the      *)
(* atomic exchange of disposed_, the one field the code makes atomic.      *)
(*                                                                         *)
(* A null pointer is FALSE, a non-null one TRUE.  make_shared_alloc of the  *)
(* MSS block (line 29) is given a positive length and yields a block; an   *)
(* allocation the code tests (resolver, socket, keep-alive block) may fail.*)
(*                                                                         *)
(* Spec is the Connection.  SpecKeepAlive is the Connection with keep-alive *)
(* under a context that runs (fairness of the timer and of the keep-alive  *)
(* write).  SpecHandshake is the static handshake functions (Pack, Unpack, *)
(* HandshakeServer, HandshakeClient) called on a transport of their own.   *)
(*                                                                         *)
(* Reads the code makes of memory it does not own are choices of what is   *)
(* found there: strtoll on the unterminated arrays of Unpack (Beyond), and *)
(* a write from a block whose owner may have released or refilled it       *)
(* (Sent).                                                                 *)
(***************************************************************************)
EXTENDS Integers, Sequences, FiniteSets, TLC

VARIABLES
    disposed_,      \* std::atomic<bool> disposed_
    available_,     \* bool available_
    buffers_,       \* std::shared_ptr<Byte> buffers_      (non-null?)
    inbound_,       \* ITransmissionPtr inbound_           (non-null?)
    outbound_,      \* ITransmissionPtr outbound_          (non-null?)
    configuration_, \* AppConfigurationPtr configuration_  (non-null?)
    remote_,        \* AsyncTcpSocketPtr remote_           (non-null?)
    resolver_,      \* std::shared_ptr<resolver> resolver_ (non-null?)
    timeout_,       \* timer handle timeout_               (non-null?)
    DisposedEvent,  \* DisposedEventHandler DisposedEvent  (set?)
    config,         \* what configuration_ points to: Domain, KeepAlived, IP/Port
    context,        \* what GetContext() of each transport returns (non-null?)
    pending,        \* outstanding asynchronous operations, by kind
    timers,         \* keep-alive timers armed and not yet fired or cancelled
    ticks,          \* expired timer handlers that a cancel came too late for
    crashed,        \* the process died on a null dereference
    pc,             \* position of each public caller inside Dispose
    hist,           \* history of the run (observation only)
    hs              \* the static handshake functions: their transport, last call

vars == <<disposed_, available_, buffers_, inbound_, outbound_, configuration_,
          remote_, resolver_, timeout_, DisposedEvent, config, context, pending,
          timers, ticks, crashed, pc, hist, hs>>

(***************************************************************************)
(* Bounds and value sets                                                   *)
(***************************************************************************)
\* the largest byte count a completion delivers
MaxLen == 2

\* IPEndPoint::MinPort, IPEndPoint::MaxPort as used by NewRemoteSocket
MinPort == 0
MaxPort == 65535

Callers == {1, 2}
Addresses == {"unicast", "unspecified", "multicast"}
Ports == {0, 80}
EndPoints == [address : Addresses, port : Ports]
\* boost::asio::ip::tcp::endpoint remoteEP;  (default constructed)
DefaultEndPoint == [address |-> "unspecified", port |-> 0]
\* IPEndPoint* ep handed to the resolver callback: NULL, or an endpoint
Resolved == {[null |-> TRUE, value |-> DefaultEndPoint]}
            \cup [null : {FALSE}, value : EndPoints]

Ops == {"inbound.ReadAsync", "inbound.WriteAsync",
        "outbound.ReadAsync", "outbound.WriteAsync",
        "remote.async_read_some", "remote.async_write",
        "remote.async_connect", "resolver.async_resolve"}
TransportOps == {"inbound.ReadAsync", "inbound.WriteAsync",
                 "outbound.ReadAsync", "outbound.WriteAsync"}

\* what EstablishRemoteSocket arms: the read of each pump, the drain, the timer
Arming == {"inbound.ReadAsync", "remote.async_read_some", "outbound.ReadAsync",
           "timer"}

Lengths == -1 .. MaxLen
Sizes == 0 .. MaxLen

NoCall == [op |-> "none", fault |-> FALSE, live |-> FALSE, network |-> FALSE,
           ret |-> FALSE, intact |-> TRUE]

(***************************************************************************)
(* The state as one record, so that a handler is the composition of the    *)
(* functions it calls.  ret is the value the last function returned.       *)
(***************************************************************************)
Cur == [disposed_ |-> disposed_, available_ |-> available_, buffers_ |-> buffers_,
        inbound_ |-> inbound_, outbound_ |-> outbound_,
        configuration_ |-> configuration_, remote_ |-> remote_,
        resolver_ |-> resolver_, timeout_ |-> timeout_,
        DisposedEvent |-> DisposedEvent, pending |-> pending, timers |-> timers,
        ticks |-> ticks, crashed |-> crashed, h |-> hist,
        ret |-> FALSE]

Commit(s) ==
    /\ disposed_' = s.disposed_
    /\ available_' = s.available_
    /\ buffers_' = s.buffers_
    /\ inbound_' = s.inbound_
    /\ outbound_' = s.outbound_
    /\ configuration_' = s.configuration_
    /\ remote_' = s.remote_
    /\ resolver_' = s.resolver_
    /\ timeout_' = s.timeout_
    /\ DisposedEvent' = s.DisposedEvent
    /\ pending' = s.pending
    /\ timers' = s.timers
    /\ ticks' = s.ticks
    /\ crashed' = s.crashed
    /\ hist' = s.h
    /\ UNCHANGED <<config, context, hs>>

Ret(s, v) == [s EXCEPT !.ret = v]

\* the handler that is running, for the history
Enter(s, op, fault, network) ==
    [s EXCEPT !.h.last = [op |-> op, fault |-> fault, live |-> ~s.disposed_,
                          network |-> network, ret |-> FALSE, intact |-> TRUE],
              !.h.ioError = @ \/ fault]

Max(a, b) == IF a >= b THEN a ELSE b

(***************************************************************************)
(* Collaborators: the logical transports, the sockets, the timer           *)
(***************************************************************************)
\* an asynchronous operation is started: its completion is now outstanding
Issue(s, op) ==
    [s EXCEPT !.pending[op] = @ + 1,
              !.h.armed = @ \cup ({op} \cap Arming),
              !.h.lateIO = IF s.disposed_ THEN @ \cup {op} ELSE @]

\* ITransmission::ReadAsync(callback) -> bool
ReadAsync(s, op, ok) ==
    IF ok THEN Ret(Issue(s, op), TRUE)
    ELSE Ret([s EXCEPT !.h.lateIO = IF s.disposed_ THEN @ \cup {op} ELSE @], FALSE)

\* ITransmission::WriteAsync(buffer, offset, length, callback) -> bool
WriteAsync(s, op, ok) ==
    IF ok THEN Ret(Issue(s, op), TRUE)
    ELSE Ret([s EXCEPT !.h.lateIO = IF s.disposed_ THEN @ \cup {op} ELSE @], FALSE)

\* uds::threading::ClearTimeout(handle): cancels the wait and resets the handle;
\* a wait that has already expired cannot be cancelled and its handler still runs
ClearTimeout(s, escaped) ==
    [s EXCEPT !.timeout_ = FALSE,
              !.timers = IF s.timeout_ /\ @ > 0 THEN @ - 1 ELSE @,
              !.ticks = IF s.timeout_ /\ s.timers > 0 /\ escaped THEN @ + 1 ELSE @]

\* uds::threading::SetTimeout(context, handler, ms): a handle, or NULL
SetTimeout(s, ok) ==
    IF ok THEN [s EXCEPT !.timeout_ = TRUE, !.timers = @ + 1,
                         !.h.armed = @ \cup {"timer"}]
    ELSE [s EXCEPT !.timeout_ = FALSE]

(***************************************************************************)
(* Connection: queries                                                     *)
(***************************************************************************)
GetContext(s) ==
    IF s.inbound_ THEN context.inbound
    ELSE IF s.outbound_ THEN context.outbound
    ELSE FALSE

\* NewRemoteSocket(configuration, context, remoteEP): is a socket returned
NewRemoteSocket(configuration, ctx, remoteEP, socketOk) ==
    IF ~ctx \/ ~configuration THEN FALSE
    ELSE IF remoteEP.address = "unspecified" \/ remoteEP.address = "multicast" THEN FALSE
    ELSE IF remoteEP.port <= MinPort \/ remoteEP.port > MaxPort THEN FALSE
    ELSE socketOk

IsNone(s) == s.disposed_ \/ ~s.inbound_ \/ ~s.outbound_ \/ ~s.configuration_

IsDisposed(s) == IsNone(s) \/ ~s.remote_ \/ ~s.buffers_

\* return available_;
Available_stale(s) == s.available_

Available(s) == s.available_ /\ ~IsDisposed(s)

(***************************************************************************)
(* Connection::Dispose                                                     *)
(***************************************************************************)
\* a plain load that misses the other caller's store
exchange_stale(old) == FALSE

\* disposed_.exchange(true): the previous value
exchange(old) == old

DisposeInbound(s) ==
    IF s.inbound_
    THEN [s EXCEPT !.inbound_ = FALSE, !.h.log = Append(@, "inbound.Close")]
    ELSE s

DisposeOutbound(s) ==
    IF s.outbound_
    THEN [s EXCEPT !.outbound_ = FALSE, !.h.log = Append(@, "outbound.Close")]
    ELSE s

DisposeRemote(s) ==
    IF s.remote_
    THEN [s EXCEPT !.remote_ = FALSE, !.h.log = Append(@, "remote.Close")]
    ELSE s

DisposeResolver(s) ==
    IF s.resolver_
    THEN [s EXCEPT !.resolver_ = FALSE, !.h.log = Append(@, "resolver.cancel")]
    ELSE s

\* buffers_ is not released
DisposeReset_late(s) == [s EXCEPT !.h.log = Append(@, "buffers.reset")]

DisposeReset(s) ==
    [s EXCEPT !.buffers_ = FALSE, !.remote_ = FALSE, !.inbound_ = FALSE,
              !.outbound_ = FALSE, !.resolver_ = FALSE,
              !.h.log = Append(@, "buffers.reset")]

\* the pending timer is left armed
DisposeClearTimeout_skip(s, escaped) == [s EXCEPT !.h.log = Append(@, "ClearTimeout")]

DisposeClearTimeout(s, escaped) ==
    [ClearTimeout(s, escaped) EXCEPT !.h.log = Append(@, "ClearTimeout")]

DisposeEmit(s) ==
    IF s.DisposedEvent
    THEN [s EXCEPT !.DisposedEvent = FALSE,
                   !.h.log = Append(@, "DisposedEvent"),
                   !.h.eventFired = @ + 1,
                   !.h.atEvent = [inbound_ |-> s.inbound_, outbound_ |-> s.outbound_,
                                  remote_ |-> s.remote_, resolver_ |-> s.resolver_,
                                  buffers_ |-> s.buffers_, timeout_ |-> s.timeout_,
                                  timers |-> s.timers]]
    ELSE s

\* the body guarded by the exchange, lines 190-224
Teardown(s, escaped) ==
    LET s1 == DisposeInbound([s EXCEPT !.h.disposeRuns = @ + 1])
        s2 == DisposeOutbound(s1)
        s3 == DisposeRemote(s2)
        s4 == DisposeResolver(s3)
        s5 == DisposeReset(s4)
        s6 == DisposeClearTimeout(s5, escaped)
    IN  DisposeEmit(s6)

\* Dispose() run to its end by the handler that calls it
Dispose(s, escaped) ==
    IF ~exchange(s.disposed_)
    THEN Teardown([s EXCEPT !.disposed_ = TRUE], escaped)
    ELSE s

Close(s, escaped) == Dispose(s, escaped)

(***************************************************************************)
(* Forwarding pumps and keep-alive cycles                                  *)
(***************************************************************************)
\* int length = std::max<int>(sz, -1);
Length_noerror(ec, sz) == Max(sz, -1)

\* int length = std::max<int>(ec ? -1 : sz, -1);
Length(ec, sz) == Max(IF ec THEN -1 ELSE sz, -1)

RemoteSocketToOutboundSocket(s) ==
    IF s.disposed_ THEN Ret(s, FALSE)
    ELSE IF ~s.remote_ THEN Ret(s, FALSE)
    ELSE IF ~s.buffers_ THEN Ret(s, FALSE)
    ELSE Ret(Issue(s, "remote.async_read_some"), TRUE)

InboundSocketToRemoteSocket(s, e) ==
    IF s.disposed_ THEN Ret(s, FALSE)
    ELSE IF ~s.inbound_ THEN Ret(s, FALSE)
    ELSE ReadAsync(s, "inbound.ReadAsync", e.inReadOk)

SendToRemoteSocket(s, buffer, length) ==
    IF s.disposed_ \/ ~buffer \/ length < 1 THEN Ret(s, FALSE)
    ELSE IF ~s.remote_ THEN Ret(s, FALSE)
    ELSE Ret(Issue(s, "remote.async_write"), TRUE)

SendToOutboundSocket(s, buffer, length, e) ==
    IF s.disposed_ \/ ~buffer \/ length < 1 THEN Ret(s, FALSE)
    ELSE IF ~s.outbound_ THEN Ret(s, FALSE)
    ELSE WriteAsync(s, "outbound.WriteAsync", e.outWriteOk)

KeepAlivedReadCycle(s, transmission, e) ==
    IF s.disposed_ \/ ~transmission THEN Ret(s, FALSE)
    ELSE ReadAsync(s, "outbound.ReadAsync", e.outReadOk)

KeepAlivedSendCycle(s, transmission, e) ==
    IF s.disposed_ \/ ~transmission THEN Ret(s, FALSE)
    ELSE IF ~GetContext(s) THEN Ret(s, FALSE)
    ELSE LET s1 == IF s.timeout_ THEN ClearTimeout(s, e.escaped) ELSE s
             s2 == SetTimeout(s1, e.timerOk)
         IN  Ret(s2, s2.timeout_)

(***************************************************************************)
(* Establishment                                                           *)
(***************************************************************************)
\* configuration_->KeepAlived; through a null configuration_ the read is
\* undefined: the process dies, or some value is read
KeepAlivedFlag(s, e) ==
    IF s.configuration_ THEN config.KeepAlived ELSE e.ub = "true"

\* InboundSocketToRemoteSocket() || RemoteSocketToOutboundSocket()
BothPumps_either(s, e) ==
    LET a == InboundSocketToRemoteSocket(s, e)
    IN  IF a.ret THEN a ELSE RemoteSocketToOutboundSocket(a)

\* InboundSocketToRemoteSocket() && RemoteSocketToOutboundSocket(), line 66
BothPumps(s, e) ==
    LET a == InboundSocketToRemoteSocket(s, e)
    IN  IF a.ret THEN RemoteSocketToOutboundSocket(a) ELSE a

EstablishRemoteSocket(s, e) ==
    LET b == BothPumps(s, e)
    IN  IF ~b.ret THEN b
        ELSE IF ~b.configuration_ /\ e.ub = "crash"
        THEN Ret([b EXCEPT !.crashed = TRUE], FALSE)
        ELSE IF ~KeepAlivedFlag(b, e) THEN b
        ELSE LET c == KeepAlivedReadCycle(b, b.outbound_, e)
             IN  IF c.ret THEN KeepAlivedSendCycle(c, c.inbound_, e) ELSE c

ConnectRemoteSocket(s, remoteEP, e) ==
    IF ~NewRemoteSocket(s.configuration_, GetContext(s), remoteEP, e.socketOk)
    THEN Ret(s, FALSE)
    ELSE Ret([Issue(s, "remote.async_connect") EXCEPT !.remote_ = TRUE], TRUE)

\* if (buffers_)
ListenRefused_nolatch(s) == s.buffers_

\* if (disposed_ || buffers_), line 25
ListenRefused(s) == s.disposed_ \/ s.buffers_

\* Listen(network): the state it leaves, ret the value it returns
ListenBody(s, network, e) ==
    IF ListenRefused(s) THEN Ret(s, FALSE)
    ELSE LET s1 == [s EXCEPT !.buffers_ = TRUE]
         IN  IF network
             THEN LET s2 == EstablishRemoteSocket([s1 EXCEPT !.remote_ = TRUE], e)
                  IN  IF s2.crashed THEN s2 ELSE [s2 EXCEPT !.available_ = s2.ret]
             ELSE IF IsNone(s1) \/ s1.remote_ \/ ~GetContext(s1) THEN Ret(s1, FALSE)
             ELSE IF ~e.allocOk THEN Ret(s1, FALSE)
             ELSE LET s2 == [s1 EXCEPT !.resolver_ = TRUE]
                  IN  IF config.Domain
                      THEN Ret(Issue(s2, "resolver.async_resolve"), TRUE)
                      ELSE ConnectRemoteSocket(s2, config.ep, e)

(***************************************************************************)
(* Completion handlers (the lambdas), as functions of the state            *)
(***************************************************************************)
\* Listen, resolver callback: lines 49-55
OnResolve(s, ep, e) ==
    LET remoteEP == IF ep.null THEN DefaultEndPoint ELSE ep.value
    IN  ConnectRemoteSocket(s, remoteEP, e)

\* ConnectRemoteSocket, async_connect handler: lines 83-91
OnConnect(s, ec, e) ==
    LET s1 == IF ~ec
              THEN LET r == EstablishRemoteSocket(s, e)
                   IN  IF r.crashed THEN r ELSE [r EXCEPT !.available_ = r.ret]
              ELSE s
    IN  IF s1.crashed THEN s1
        ELSE IF ~s1.available_ THEN Close(s1, e.escaped)
        ELSE s1

\* RemoteSocketToOutboundSocket, async_read_some handler: lines 245-250
OnRemoteRead(s, ec, sz, e) ==
    LET s1 == SendToOutboundSocket(s, TRUE, Length(ec, sz), e)
    IN  IF ~s1.ret THEN Close(s1, e.escaped) ELSE s1

\* the handler starts the write and arms the next read at once
OnInboundRead_eager(s, buffer, length, e) ==
    LET s1 == SendToRemoteSocket(s, buffer, length)
    IN  IF ~s1.ret THEN Close(s1, e.escaped)
        ELSE LET s2 == InboundSocketToRemoteSocket(s1, e)
             IN  IF ~s2.ret THEN Close(s2, e.escaped) ELSE s2

\* InboundSocketToRemoteSocket, ReadAsync handler: lines 266-270
OnInboundRead(s, buffer, length, e) ==
    LET s1 == SendToRemoteSocket(s, buffer, length)
    IN  IF ~s1.ret THEN Close(s1, e.escaped) ELSE s1

\* SendToRemoteSocket, async_write handler: lines 285-290
OnRemoteWrite(s, ec, sz, e) ==
    IF Length(ec, sz) < 1 THEN Close(s, e.escaped)
    ELSE LET s1 == InboundSocketToRemoteSocket(s, e)
         IN  IF ~s1.ret THEN Close(s1, e.escaped) ELSE s1

\* SendToOutboundSocket, WriteAsync handler: lines 306-310
OnOutboundWrite(s, success, e) ==
    IF ~success THEN Close(s, e.escaped)
    ELSE LET s1 == RemoteSocketToOutboundSocket(s)
         IN  IF ~s1.ret THEN Close(s1, e.escaped) ELSE s1

\* KeepAlivedReadCycle, ReadAsync handler: lines 481-488
OnKeepAlivedRead(s, length, e) ==
    IF length < 1 THEN Close(s, e.escaped)
    ELSE KeepAlivedReadCycle(s, TRUE, e)

\* KeepAlivedSendCycle, timer handler: lines 508-539
OnTimeout(s, e) ==
    LET s1 == IF s.timeout_ THEN ClearTimeout(s, e.escaped) ELSE s
    IN  IF ~e.allocOk THEN Close(s1, e.escaped)
        ELSE LET s2 == WriteAsync(s1, "inbound.WriteAsync", e.inWriteOk)
             IN  IF ~s2.ret THEN Close(s2, e.escaped) ELSE s2

\* the completed write does not schedule the next timer
OnKeepAlivedWrite_once(s, success, e) ==
    IF ~success THEN Close(s, e.escaped) ELSE s

\* KeepAlivedSendCycle, WriteAsync handler: lines 526-534
OnKeepAlivedWrite(s, success, e) ==
    LET s1 == IF success THEN KeepAlivedSendCycle(s, TRUE, e) ELSE Ret(s, FALSE)
    IN  IF ~s1.ret THEN Close(s1, e.escaped) ELSE s1

(***************************************************************************)
(* Integers and characters of the handshake codec.  An int has 32 bits and *)
(* an Int64 has 64; a value is held as its hexadecimal digits, the least   *)
(* significant first, so that <<, | and ^ act on the bits the code acts on *)
(* and a digit shifted past the width is lost.                             *)
(***************************************************************************)
\* hexadecimal digits of an int, of an Int64
IntDigits == 8
Int64Digits == 16

\* the int n, 0 <= n < 2^31
Int32(n) == [i \in 1 .. IntDigits |-> (n \div (16 ^ (i - 1))) % 16]

Zero(w) == [i \in 1 .. w |-> 0]

Bit(d, k) == (d \div (2 ^ k)) % 2

\* a ^ b, a | b on one hexadecimal digit
DigitXor(a, b) ==
    ((Bit(a, 0) + Bit(b, 0)) % 2) + 2 * ((Bit(a, 1) + Bit(b, 1)) % 2)
    + 4 * ((Bit(a, 2) + Bit(b, 2)) % 2) + 8 * ((Bit(a, 3) + Bit(b, 3)) % 2)

DigitOr(a, b) ==
    Max(Bit(a, 0), Bit(b, 0)) + 2 * Max(Bit(a, 1), Bit(b, 1))
    + 4 * Max(Bit(a, 2), Bit(b, 2)) + 8 * Max(Bit(a, 3), Bit(b, 3))

\* x ^ y, x | y, x << (4 * k) on values of one width
Xor(x, y) == [i \in DOMAIN x |-> DigitXor(x[i], y[i])]

Or(x, y) == [i \in DOMAIN x |-> DigitOr(x[i], y[i])]

ShiftLeft(x, k) == [i \in DOMAIN x |-> IF i > k THEN x[i - k] ELSE 0]

\* (int)(v), (int)(v >> 32) of an Int64 v
Low(v) == [i \in 1 .. IntDigits |-> v[i]]

High(v) == [i \in 1 .. IntDigits |-> v[i + IntDigits]]

\* n >= x, for a signed x and 0 <= n < 16
AtMost(x, n) ==
    \/ x[Len(x)] >= 8
    \/ (\A i \in 2 .. Len(x) : x[i] = 0) /\ x[1] <= n

\* the unsigned value of x when it fits 16 bits, else -1
Small(x) ==
    IF \A i \in 5 .. Len(x) : x[i] = 0
    THEN x[1] + 16 * x[2] + 256 * x[3] + 4096 * x[4]
    ELSE -1

Upper == <<"0", "1", "2", "3", "4", "5", "6", "7", "8", "9",
           "A", "B", "C", "D", "E", "F">>
Lower == <<"0", "1", "2", "3", "4", "5", "6", "7", "8", "9",
           "a", "b", "c", "d", "e", "f">>

isxdigit(ch) == \E i \in 1 .. 16 : ch = Upper[i] \/ ch = Lower[i]

DigitOf(ch) == (CHOOSE i \in 1 .. 16 : ch = Upper[i] \/ ch = Lower[i]) - 1

toupper(ch) == IF isxdigit(ch) THEN Upper[DigitOf(ch) + 1] ELSE ch

tolower(ch) == IF isxdigit(ch) THEN Lower[DigitOf(ch) + 1] ELSE ch

\* "%0<width>X" of an int: upper case, the most significant digit first, as
\* many digits as the value has and never fewer than width
FormatX(x, width) ==
    LET top == CHOOSE i \in DOMAIN x :
                   /\ (i = 1 \/ x[i] # 0)
                   /\ \A j \in DOMAIN x : j > i => x[j] = 0
        k == Max(width, top)
    IN  [j \in 1 .. k |-> Upper[x[k - j + 1] + 1]]

\* sprintf(p, "%04X%08X", a, b): the characters written (the count returned
\* is their number)
sprintf(a, b) == FormatX(a, 4) \o FormatX(b, 8)

\* strtoll(str, NULL, 16) on a char array that has no terminator: the
\* conversion runs over the array and on over the bytes that lie beyond it,
\* as far as they are hexadecimal digits.  beyond is what the build left there.
strtoll(str, beyond) ==
    LET chars == str \o beyond
        n == CHOOSE k \in 0 .. Len(chars) :
                 /\ \A i \in 1 .. k : isxdigit(chars[i])
                 /\ k = Len(chars) \/ ~isxdigit(chars[k + 1])
    IN  [i \in 1 .. Int64Digits |-> IF i <= n THEN DigitOf(chars[n - i + 1]) ELSE 0]

(***************************************************************************)
(* Handshake: PackPlaintextHeaders, UnpackPlaintextLength, HandshakeServer,*)
(* HandshakeClient.  They are static: they act on the transport they are   *)
(* given and on no field of a Connection.                                  *)
(***************************************************************************)
UINT8_MAX == 255

\* uds::threading::Hosting::BufferSize, the size of the block Pack fills
BufferSize == 65535

\* the most bytes strtoll finds to read beyond the array it is given
MaxOverread == 1

\* RandomNext(min, max): what it can return, by its least and greatest values
RandomNext(min, max) == {n \in {min, min + 1, max - 1, max} : min <= n /\ n <= max}

\* RandomAscii(): a printable character, a hexadecimal digit or not
RandomAscii == {"~", "7"}

\* the header characters 1 .. 12 that RandomNext(0, 1) turns to lower case
CaseMasks == {{}, 1 .. 12, {1, 3, 5, 7, 9, 11}, {2, 4, 6, 8, 10, 12}}

\* what lies in memory behind a local char array: hexadecimal digits, then a
\* byte that is none
Beyond == UNION {[1 .. n -> {"0", "a"}] : n \in 0 .. MaxOverread}

NoFrame == [null |-> TRUE, bytes |-> <<>>, size |-> 0]

\* messages_size << 16 | messages_size, in int
Mask(messages_size) == Or(ShiftLeft(messages_size, 4), messages_size)

\* lines 433-441: the twelve characters at messages[1 ..], their case drawn
Header(messages_size, channelId, lower) ==
    LET text == sprintf(Int32(messages_size),
                        Xor(Int32(channelId), Mask(Int32(messages_size))))
    IN  [i \in 1 .. Len(text) |->
            IF i \in lower THEN tolower(text[i]) ELSE toupper(text[i])]

\* PackPlaintextHeaders(stream, channelId, alignment): the block written to the
\* stream, bytes[j + 1] being messages[j] for j in 0 .. 13 (the bytes behind
\* them are RandomAscii() and are read by nobody); r holds what RandomNext and
\* RandomAscii return
PackPlaintextHeaders(channelId, alignment, r) ==
    [null |-> FALSE,
     bytes |-> <<r.ascii>> \o Header(r.size, channelId, r.lower) \o <<r.ascii>>,
     size |-> r.size]

\* what Pack's RandomNext and RandomAscii can return for this alignment
PackChoices(alignment) ==
    [size : RandomNext(UINT8_MAX * 2, IF alignment <= BufferSize THEN alignment
                                      ELSE BufferSize),
     lower : CaseMasks, ascii : RandomAscii]

\* UnpackPlaintextLength(buffer, offset, length): the Int64 returned; o.len and
\* o.id are the bytes behind the arrays len and id
UnpackPlaintextLength(buffer, offset, length, o) ==
    IF buffer.null \/ offset < 0 \/ length < 1 THEN Zero(Int64Digits)
    ELSE IF 13 > length THEN Zero(Int64Digits)
    ELSE LET len == [j \in 1 .. 4 |-> buffer.bytes[offset + 1 + j]]
             messages_size == strtoll(len, o.len)
         IN  IF AtMost(messages_size, 13) THEN Zero(Int64Digits)
             ELSE LET id == [j \in 1 .. 8 |-> buffer.bytes[offset + 5 + j]]
                      channelid == Xor(strtoll(id, o.id),
                                       Or(ShiftLeft(messages_size, 4), messages_size))
                  IN  Or(ShiftLeft(channelid, 8), messages_size)

NoHandshake == [op |-> "none", ret |-> FALSE, wrote |-> 0, cb |-> 0,
                success |-> FALSE, channelId |-> Zero(IntDigits),
                v |-> Zero(Int64Digits), length |-> 0,
                beyond |-> [len |-> <<>>, id |-> <<>>]]

\* callback(success, channelId)
callback(h, success, channelId) ==
    [h EXCEPT !.last.cb = @ + 1, !.last.success = success,
              !.last.channelId = channelId]

\* HandshakeServer(transmission, alignment, channelId, handler), lines 313-329
HandshakeServer(h, transmission, alignment, channelId, handler, r) ==
    IF ~transmission \/ ~handler \/ alignment < UINT8_MAX * 2 \/ channelId = 0
    THEN [h EXCEPT !.last.ret = FALSE]
    ELSE LET messages == PackPlaintextHeaders(channelId, alignment, r)
         IN  [h EXCEPT !.last.wrote = @ + 1,
                       !.last.ret = r.writeOk,
                       !.wire = IF r.writeOk THEN messages ELSE @,
                       !.phase = IF r.writeOk THEN "writing" ELSE @]

\* HandshakeServer, WriteAsync handler: lines 326-328
OnHandshakeWrite(h, success, channelId) == callback(h, success, Int32(channelId))

\* HandshakeClient(transmission, handler), lines 331-338
HandshakeClient(h, transmission, handler, readOk) ==
    IF ~transmission \/ ~handler THEN [h EXCEPT !.last.ret = FALSE]
    ELSE [h EXCEPT !.last.ret = readOk,
                   !.phase = IF readOk THEN "reading" ELSE @]

\* HandshakeClient, ReadAsync handler: lines 339-363
OnHandshakeRead(h, buffer, length, o) ==
    IF buffer.null \/ length < 1 THEN callback(h, FALSE, Zero(IntDigits))
    ELSE LET v == UnpackPlaintextLength(buffer, 0, length, o)
             h1 == [h EXCEPT !.last.v = v]
         IN  IF v = Zero(Int64Digits) THEN callback(h1, FALSE, Zero(IntDigits))
             ELSE IF Low(v) # Int32(length) THEN callback(h1, FALSE, Zero(IntDigits))
             ELSE IF High(v) = Zero(IntDigits) THEN callback(h1, FALSE, Zero(IntDigits))
             ELSE callback(h1, TRUE, High(v))

(***************************************************************************)
(* The handshake functions called on a transport of their own              *)
(***************************************************************************)
Alignments == {509, 510, 511, 512, 1024, 65535}
ChannelIds == {0, 1, 48879, 2147483647}
FieldSizes == {0, 13, 14, 600, 65535}
FrameLengths == {-1, 0, 12, 13, 14, 599, 600, 65535}
Offsets == {-1, 0}

\* the size field does not start with a hexadecimal digit
Garbled(buffer) == [buffer EXCEPT !.bytes[2] = "~"]

NoInput == [kind |-> "none", transmission |-> FALSE, handler |-> FALSE,
            alignment |-> 0, channelId |-> 0, size |-> 0, packed |-> FALSE,
            buffer |-> NoFrame, offset |-> 0, length |-> 0]

\* a call of UnpackPlaintextLength, or a frame delivered to HandshakeClient:
\* no block, a block laid out as Pack lays it out for (size, channelId), or
\* such a block garbled
BlockInputs(kind) ==
    {[NoInput EXCEPT !.kind = kind, !.transmission = TRUE, !.handler = TRUE,
                     !.length = length] : length \in {0, 600}}
    \cup
    {[NoInput EXCEPT !.kind = kind, !.transmission = TRUE, !.handler = TRUE,
                     !.size = size, !.channelId = channelId,
                     !.packed = ~garbled,
                     !.buffer = LET b == PackPlaintextHeaders(
                                             channelId, size,
                                             [size |-> size, lower |-> lower,
                                              ascii |-> "~"])
                                IN  IF garbled THEN Garbled(b) ELSE b,
                     !.length = length] :
        size \in FieldSizes, channelId \in ChannelIds, lower \in CaseMasks,
        garbled \in BOOLEAN, length \in FrameLengths}

UnpackInputs ==
    {[i EXCEPT !.offset = offset] : i \in BlockInputs("Unpack"), offset \in Offsets}

ClientInputs ==
    BlockInputs("Client")
    \cup {[NoInput EXCEPT !.kind = "Client", !.transmission = transmission,
                          !.handler = handler] :
            transmission, handler \in BOOLEAN}

ServerInputs ==
    {[NoInput EXCEPT !.kind = "Server", !.transmission = transmission,
                     !.handler = handler, !.alignment = alignment,
                     !.channelId = channelId] :
        transmission, handler \in BOOLEAN, alignment \in Alignments,
        channelId \in ChannelIds}

\* no handshake function has been called
NoRun == [phase |-> "idle", in |-> NoInput, wire |-> NoFrame, last |-> NoHandshake]

\* the handshake function that is running, for the history
HandshakeEnter(op) == [hs EXCEPT !.last = [NoHandshake EXCEPT !.op = op]]

(***************************************************************************)
(* Actions                                                                 *)
(***************************************************************************)
\* what the environment answers to the calls one handler makes; each action
\* draws the answers its handler asks for
Base == [inReadOk |-> TRUE, inWriteOk |-> TRUE, outReadOk |-> TRUE,
         outWriteOk |-> TRUE, timerOk |-> TRUE, escaped |-> FALSE,
         allocOk |-> TRUE, socketOk |-> TRUE, ub |-> "false"]

\* whether a cancel comes too late is a question only while a timer is armed
Escapes == IF timers > 0 THEN BOOLEAN ELSE {FALSE}

\* boost::asio::buffer(buffer, length) at line 284 is the raw pointer of the
\* block inbound delivered to the callback at line 266; the handler at line 285
\* holds references, this and socket, and nothing that keeps the block: while
\* the async_write is outstanding it reads a block the Connection does not own
BorrowedInboundBuffer == pending["remote.async_write"] > 0

\* the shared_ptr handed to WriteAsync at line 305 does not own buffers_, which
\* Dispose releases at line 213
BorrowedReleasedBuffers == pending["outbound.WriteAsync"] > 0 /\ ~buffers_

\* whether a write sent the bytes it was started with: a failed write sent
\* nothing; a write from a block that is no longer the Connection's sent what
\* was in the block by then
Sent(failed, dangling) == IF ~failed /\ dangling THEN BOOLEAN ELSE {TRUE}

\* a completion of kind op is delivered
Deliver(op, fault) ==
    Enter([Cur EXCEPT !.pending[op] = @ - 1], op, fault, FALSE)

\* a public method is called
Call(op, network) == Enter(Cur, op, FALSE, network)

InitHist == [last |-> NoCall, ioError |-> FALSE, armed |-> {}, lateIO |-> {},
             log |-> <<>>, eventFired |-> 0, disposeRuns |-> 0,
             atEvent |-> [inbound_ |-> FALSE, outbound_ |-> FALSE, remote_ |-> FALSE,
                          resolver_ |-> FALSE, buffers_ |-> FALSE, timeout_ |-> FALSE,
                          timers |-> 0]]

\* one representative of the constructor arguments that no code path tells
\* apart: the contents of a null configuration, the IP/Port of a Domain
\* configuration (the resolver supplies the endpoint), the context of a
\* transport that GetContext() never asks
Canonical ==
    /\ ~configuration_ => config = [Domain |-> FALSE, KeepAlived |-> FALSE,
                                    ep |-> DefaultEndPoint]
    /\ config.Domain => config.ep = DefaultEndPoint
    /\ ~inbound_ => ~context.inbound
    /\ (inbound_ \/ ~outbound_) => ~context.outbound

\* the Connection after its constructor, lines 7-20
Init ==
    /\ disposed_ = FALSE
    /\ available_ = FALSE
    /\ buffers_ = FALSE
    /\ inbound_ \in BOOLEAN
    /\ outbound_ \in BOOLEAN
    /\ configuration_ \in BOOLEAN
    /\ remote_ = FALSE
    /\ resolver_ = FALSE
    /\ timeout_ = FALSE
    /\ DisposedEvent \in BOOLEAN
    /\ config \in [Domain : BOOLEAN, KeepAlived : BOOLEAN, ep : EndPoints]
    /\ context \in [inbound : BOOLEAN, outbound : BOOLEAN]
    /\ Canonical
    /\ pending = [op \in Ops |-> 0]
    /\ timers = 0
    /\ ticks = 0
    /\ crashed = FALSE
    /\ pc = [t \in Callers |-> "idle"]
    /\ hist = InitHist
    /\ hs = NoRun

\* the answers Listen can get; it asks nothing when it returns at line 26
ListenAnswers ==
    IF disposed_ \/ buffers_ THEN {Base}
    ELSE {[Base EXCEPT !.inReadOk = a[1], !.outReadOk = a[2], !.timerOk = a[3],
                       !.allocOk = a[4], !.socketOk = a[5], !.ub = u] :
            a \in [1 .. 5 -> BOOLEAN], u \in {"crash", "true", "false"}}

Listen ==
    /\ ~crashed
    /\ \E network \in BOOLEAN, e \in ListenAnswers :
          LET s == ListenBody(Call("Listen", network), network, e)
          IN  Commit([s EXCEPT !.h.last.ret = s.ret])
    /\ UNCHANGED pc

\* Dispose() entered by a public caller: the exchange
DisposeCall(t) ==
    /\ ~crashed
    /\ pc[t] = "idle"
    /\ IF ~exchange(disposed_)
       THEN /\ Commit([Call("Dispose", FALSE) EXCEPT !.disposed_ = TRUE])
            /\ pc' = [pc EXCEPT ![t] = "teardown"]
       ELSE /\ Commit(Call("Dispose", FALSE))
            /\ UNCHANGED pc

\* Close() entered by a public caller: Dispose()
CloseCall(t) ==
    /\ ~crashed
    /\ pc[t] = "idle"
    /\ IF ~exchange(disposed_)
       THEN /\ Commit([Call("Close", FALSE) EXCEPT !.disposed_ = TRUE])
            /\ pc' = [pc EXCEPT ![t] = "teardown"]
       ELSE /\ Commit(Call("Close", FALSE))
            /\ UNCHANGED pc

\* the caller that won the exchange runs the body of Dispose
DisposeBody(t) ==
    /\ ~crashed
    /\ pc[t] = "teardown"
    /\ \E escaped \in Escapes :
          Commit(Teardown(Enter(Cur, "Teardown", FALSE, FALSE), escaped))
    /\ pc' = [pc EXCEPT ![t] = "idle"]

ResolveComplete ==
    /\ ~crashed
    /\ pending["resolver.async_resolve"] > 0
    /\ \E ep \in Resolved, socketOk \in BOOLEAN :
          LET e == [Base EXCEPT !.socketOk = socketOk]
              s == OnResolve(Deliver("resolver.async_resolve", ep.null), ep, e)
          IN  Commit(s)
    /\ UNCHANGED pc

ConnectComplete ==
    /\ ~crashed
    /\ pending["remote.async_connect"] > 0
    /\ \E ec, inReadOk, outReadOk, timerOk \in BOOLEAN, escaped \in Escapes :
          LET e == [Base EXCEPT !.inReadOk = inReadOk, !.outReadOk = outReadOk,
                                !.timerOk = timerOk, !.escaped = escaped]
          IN  Commit(OnConnect(Deliver("remote.async_connect", ec), ec, e))
    /\ UNCHANGED pc

InboundReadComplete ==
    /\ ~crashed
    /\ pending["inbound.ReadAsync"] > 0
    /\ \E buffer \in BOOLEAN, escaped \in Escapes, length \in Lengths :
          LET e == [Base EXCEPT !.escaped = escaped]
          IN  Commit(OnInboundRead(Deliver("inbound.ReadAsync", length < 1),
                                   buffer, length, e))
    /\ UNCHANGED pc

\* async_write has sent what it found in the block it was given
RemoteWriteComplete ==
    /\ ~crashed
    /\ pending["remote.async_write"] > 0
    /\ \E ec, inReadOk \in BOOLEAN, escaped \in Escapes, sz \in Sizes :
       \E intact \in Sent(ec \/ sz = 0, BorrowedInboundBuffer) :
          LET e == [Base EXCEPT !.inReadOk = inReadOk, !.escaped = escaped]
              s == Deliver("remote.async_write", ec \/ sz = 0)
          IN  Commit(OnRemoteWrite([s EXCEPT !.h.last.intact = intact], ec, sz, e))
    /\ UNCHANGED pc

RemoteReadComplete ==
    /\ ~crashed
    /\ pending["remote.async_read_some"] > 0
    /\ \E ec, outWriteOk \in BOOLEAN, escaped \in Escapes, sz \in Sizes :
          LET e == [Base EXCEPT !.outWriteOk = outWriteOk, !.escaped = escaped]
          IN  Commit(OnRemoteRead(Deliver("remote.async_read_some", ec \/ sz = 0),
                                  ec, sz, e))
    /\ UNCHANGED pc

\* WriteAsync has sent what it found in the block it was given
OutboundWriteComplete ==
    /\ ~crashed
    /\ pending["outbound.WriteAsync"] > 0
    /\ \E success \in BOOLEAN, escaped \in Escapes :
       \E intact \in Sent(~success, BorrowedReleasedBuffers) :
          LET e == [Base EXCEPT !.escaped = escaped]
              s == Deliver("outbound.WriteAsync", ~success)
          IN  Commit(OnOutboundWrite([s EXCEPT !.h.last.intact = intact], success, e))
    /\ UNCHANGED pc

KeepAlivedReadComplete ==
    /\ ~crashed
    /\ pending["outbound.ReadAsync"] > 0
    /\ \E outReadOk \in BOOLEAN, escaped \in Escapes, length \in Lengths :
          LET e == [Base EXCEPT !.outReadOk = outReadOk, !.escaped = escaped]
          IN  Commit(OnKeepAlivedRead(Deliver("outbound.ReadAsync", length < 1),
                                      length, e))
    /\ UNCHANGED pc

\* the armed timer expires and its handler runs
TimerFire ==
    /\ ~crashed
    /\ timers > 0
    /\ \E allocOk, inWriteOk \in BOOLEAN, escaped \in Escapes :
          LET e == [Base EXCEPT !.allocOk = allocOk, !.inWriteOk = inWriteOk,
                                !.escaped = escaped]
              s == Enter([Cur EXCEPT !.timers = @ - 1], "timer", FALSE, FALSE)
          IN  Commit(OnTimeout(s, e))
    /\ UNCHANGED pc

\* the handler of a timer that had expired before it was cancelled runs
TickFire ==
    /\ ~crashed
    /\ ticks > 0
    /\ \E allocOk, inWriteOk \in BOOLEAN, escaped \in Escapes :
          LET e == [Base EXCEPT !.allocOk = allocOk, !.inWriteOk = inWriteOk,
                                !.escaped = escaped]
              s == Enter([Cur EXCEPT !.ticks = @ - 1], "timer", FALSE, FALSE)
          IN  Commit(OnTimeout(s, e))
    /\ UNCHANGED pc

KeepAlivedWriteComplete ==
    /\ ~crashed
    /\ pending["inbound.WriteAsync"] > 0
    /\ \E success, timerOk \in BOOLEAN, escaped \in Escapes :
          LET e == [Base EXCEPT !.timerOk = timerOk, !.escaped = escaped]
          IN  Commit(OnKeepAlivedWrite(Deliver("inbound.WriteAsync", ~success),
                                       success, e))
    /\ UNCHANGED pc

Next ==
    \/ Listen
    \/ \E t \in Callers : DisposeCall(t)
    \/ \E t \in Callers : CloseCall(t)
    \/ \E t \in Callers : DisposeBody(t)
    \/ ResolveComplete
    \/ ConnectComplete
    \/ InboundReadComplete
    \/ RemoteWriteComplete
    \/ RemoteReadComplete
    \/ OutboundWriteComplete
    \/ KeepAlivedReadComplete
    \/ TimerFire
    \/ TickFire
    \/ KeepAlivedWriteComplete

Spec == Init /\ [][Next]_vars

\* Connections that can get established with keep-alive: constructed with both
\* transports, a context, and a KeepAlived configuration that names an address
\* a socket can be made for
InitKeepAlive ==
    /\ Init
    /\ inbound_ /\ outbound_ /\ configuration_
    /\ context.inbound
    /\ config.KeepAlived /\ ~config.Domain
    /\ config.ep = [address |-> "unicast", port |-> 80]

\* Listen and the handlers of the Connection, with no public Close or Dispose
NextKeepAlive ==
    \/ Listen
    \/ ConnectComplete
    \/ InboundReadComplete
    \/ RemoteWriteComplete
    \/ RemoteReadComplete
    \/ OutboundWriteComplete
    \/ KeepAlivedReadComplete
    \/ TimerFire
    \/ TickFire
    \/ KeepAlivedWriteComplete

\* the context runs: a timer that stays armed expires and its handler runs,
\* and the inbound transport completes a write that stays outstanding
SpecKeepAlive ==
    /\ InitKeepAlive
    /\ [][NextKeepAlive]_vars
    /\ WF_vars(TimerFire)
    /\ WF_vars(KeepAlivedWriteComplete)

\* Connections that can get established and then be disposed of: constructed
\* with both transports, a context, a DisposedEvent handler and a configuration
\* that names a host to resolve or an address a socket can be made for
InitDisposal ==
    /\ Init
    /\ inbound_ /\ outbound_ /\ configuration_
    /\ context.inbound
    /\ DisposedEvent
    /\ config.Domain \/ config.ep = [address |-> "unicast", port |-> 80]

\* the caller that has won the exchange runs the body of Dispose to its end; a
\* closed transport and the closed remote socket complete their outstanding
\* operations, the cancelled resolver completes, and the context runs the
\* handler of a timer that had expired
SpecDisposal ==
    /\ InitDisposal
    /\ [][Next]_vars
    /\ \A t \in Callers : WF_vars(DisposeBody(t))
    /\ WF_vars(disposed_ /\ ResolveComplete)
    /\ WF_vars(disposed_ /\ ConnectComplete)
    /\ WF_vars(disposed_ /\ InboundReadComplete)
    /\ WF_vars(disposed_ /\ RemoteWriteComplete)
    /\ WF_vars(disposed_ /\ RemoteReadComplete)
    /\ WF_vars(disposed_ /\ OutboundWriteComplete)
    /\ WF_vars(disposed_ /\ KeepAlivedReadComplete)
    /\ WF_vars(disposed_ /\ KeepAlivedWriteComplete)
    /\ WF_vars(disposed_ /\ TimerFire)
    /\ WF_vars(disposed_ /\ TickFire)

(***************************************************************************)
(* Actions of the handshake functions                                      *)
(***************************************************************************)
HandshakeCommit(h) ==
    /\ hs' = h
    /\ UNCHANGED <<disposed_, available_, buffers_, inbound_, outbound_,
                   configuration_, remote_, resolver_, timeout_, DisposedEvent,
                   config, context, pending, timers, ticks, crashed, pc, hist>>

\* no Connection is involved: one is constructed and left alone
InitHandshake ==
    /\ disposed_ = FALSE
    /\ available_ = FALSE
    /\ buffers_ = FALSE
    /\ inbound_ = TRUE
    /\ outbound_ = TRUE
    /\ configuration_ = FALSE
    /\ remote_ = FALSE
    /\ resolver_ = FALSE
    /\ timeout_ = FALSE
    /\ DisposedEvent = FALSE
    /\ config = [Domain |-> FALSE, KeepAlived |-> FALSE, ep |-> DefaultEndPoint]
    /\ context = [inbound |-> TRUE, outbound |-> FALSE]
    /\ pending = [op \in Ops |-> 0]
    /\ timers = 0
    /\ ticks = 0
    /\ crashed = FALSE
    /\ pc = [t \in Callers |-> "idle"]
    /\ hist = InitHist
    /\ hs \in {[NoRun EXCEPT !.in = i] :
                 i \in UnpackInputs \cup ServerInputs \cup ClientInputs}

UnpackCall ==
    /\ hs.phase = "idle"
    /\ hs.in.kind = "Unpack"
    /\ \E len, id \in Beyond :
          LET h == HandshakeEnter("Unpack")
              v == UnpackPlaintextLength(hs.in.buffer, hs.in.offset, hs.in.length,
                                         [len |-> len, id |-> id])
          IN  HandshakeCommit([h EXCEPT !.last.v = v, !.phase = "done",
                                        !.last.beyond = [len |-> len, id |-> id]])

HandshakeServerCall ==
    /\ hs.phase = "idle"
    /\ hs.in.kind = "Server"
    /\ \E writeOk \in BOOLEAN, c \in PackChoices(Max(hs.in.alignment, UINT8_MAX * 2)) :
          LET r == [size |-> c.size, lower |-> c.lower, ascii |-> c.ascii,
                    writeOk |-> writeOk]
              h == HandshakeServer(HandshakeEnter("HandshakeServer"),
                                   hs.in.transmission, hs.in.alignment,
                                   hs.in.channelId, hs.in.handler, r)
          IN  HandshakeCommit([h EXCEPT !.phase = IF @ = "idle" THEN "done" ELSE @])

\* the transport completes the write of the header
HandshakeWriteComplete ==
    /\ hs.phase = "writing"
    /\ \E success \in BOOLEAN :
          LET h == OnHandshakeWrite(HandshakeEnter("HandshakeServer.WriteAsync"),
                                    success, hs.in.channelId)
          IN  HandshakeCommit([h EXCEPT !.phase = IF success THEN "onwire" ELSE "done"])

\* HandshakeClient is called by itself, or at the far end of a written header
HandshakeClientCall ==
    /\ \/ hs.phase = "idle" /\ hs.in.kind = "Client"
       \/ hs.phase = "onwire"
    /\ \E readOk \in BOOLEAN :
          LET far == hs.phase = "onwire"
              h == HandshakeClient(HandshakeEnter("HandshakeClient"),
                                   far \/ hs.in.transmission, far \/ hs.in.handler,
                                   readOk)
          IN  HandshakeCommit([h EXCEPT !.phase = IF @ = "reading" THEN @ ELSE "done"])

\* the transport delivers a frame: the block given, or the header on the wire
\* whole or short of its last byte
HandshakeReadComplete ==
    /\ hs.phase = "reading"
    /\ \E len, id \in Beyond, short \in BOOLEAN :
          LET far == ~hs.wire.null
              buffer == IF far THEN hs.wire ELSE hs.in.buffer
              length == IF far THEN hs.wire.size - (IF short THEN 1 ELSE 0)
                        ELSE hs.in.length
              h == OnHandshakeRead(HandshakeEnter("HandshakeClient.ReadAsync"),
                                   buffer, length, [len |-> len, id |-> id])
          IN  HandshakeCommit([h EXCEPT !.phase = "done",
                                        !.last.length = length,
                                        !.last.beyond = [len |-> len, id |-> id]])

NextHandshake ==
    \/ UnpackCall
    \/ HandshakeServerCall
    \/ HandshakeWriteComplete
    \/ HandshakeClientCall
    \/ HandshakeReadComplete

SpecHandshake == InitHandshake /\ [][NextHandshake]_vars

(***************************************************************************)
(* Properties                                                              *)
(***************************************************************************)
PumpA == pending["inbound.ReadAsync"] + pending["remote.async_write"]
PumpB == pending["remote.async_read_some"] + pending["outbound.WriteAsync"]

\* nothing is outstanding and no caller is inside Dispose
Quiescent ==
    /\ \A op \in Ops : pending[op] = 0
    /\ timers = 0
    /\ ticks = 0
    /\ \A t \in Callers : pc[t] = "idle"

TeardownOrder == <<"inbound.Close", "outbound.Close", "remote.Close",
                   "resolver.cancel", "buffers.reset", "ClearTimeout",
                   "DisposedEvent">>

Position(step) == CHOOSE i \in 1 .. Len(TeardownOrder) : TeardownOrder[i] = step

InOrder(log) ==
    \A i, j \in 1 .. Len(log) : i < j => Position(log[i]) < Position(log[j])

AllReleased(r) ==
    /\ ~r.inbound_ /\ ~r.outbound_ /\ ~r.remote_ /\ ~r.resolver_ /\ ~r.buffers_
    /\ ~r.timeout_ /\ r.timers = 0

\* C1: whatever the public calls and completions, and with two callers inside
\* Dispose at once, the body of Dispose runs at most once and DisposedEvent is
\* invoked at most once.
C1_DisposeAtMostOnce == hist.disposeRuns <= 1 /\ hist.eventFired <= 1

\* a second caller has entered Dispose while the first is inside its body
C1_Witness ==
    /\ \E t \in Callers : pc[t] = "teardown"
    /\ hist.last.op \in {"Dispose", "Close"} /\ ~hist.last.live

\* C2: once Close() has set disposed_ the Connection (one constructed with a
\* configuration) calls no ReadAsync or WriteAsync of the inbound or outbound
\* transport, whichever handler runs afterwards.
C2_NoTransportCallAfterClose ==
    configuration_ => hist.lateIO \cap TransportOps = {}

\* C3: while disposed_ is false and available_ is true each pump has exactly
\* one operation outstanding.
C3_OneOperationPerPump ==
    (~disposed_ /\ available_) => (PumpA = 1 /\ PumpB = 1)

\* both pumps are in their write half on an available Connection
C3_Witness ==
    /\ ~disposed_ /\ available_
    /\ pending["remote.async_write"] = 1
    /\ pending["outbound.WriteAsync"] = 1

\* C4: Available() is false until both pumps (and, with KeepAlived, both
\* keep-alive cycles) have been armed, and false in every state after an I/O
\* error was delivered.
C4_AvailableOnlyArmedAndHealthy ==
    Available(Cur) =>
        /\ {"inbound.ReadAsync", "remote.async_read_some"} \subseteq hist.armed
        /\ config.KeepAlived => {"outbound.ReadAsync", "timer"} \subseteq hist.armed
        /\ ~hist.ioError

\* an error was delivered to a Connection whose available_ had been set
C4_Witness == hist.ioError /\ available_ /\ hist.last.live /\ ~Available(Cur)

\* C5: at most one keep-alive timer is armed, the handle is set exactly while
\* it is, and none is armed once Dispose has run.
C5_AtMostOneTimer ==
    /\ timers <= 1
    /\ timeout_ <=> timers = 1
    /\ hist.disposeRuns >= 1 => timers = 0

\* Dispose has run on a Connection whose timer was armed (it had expired)
C5_Witness == hist.disposeRuns = 1 /\ ticks = 1 /\ timers = 0

\* C6: Dispose closes inbound, outbound and remote, cancels the resolver,
\* releases the buffer and clears the timer in that order before it invokes
\* DisposedEvent; when the event is invoked and ever after, every sub-resource
\* is null and no timer is armed.
C6_ReleasedBeforeEvent ==
    /\ InOrder(hist.log)
    /\ hist.eventFired >= 1 => (AllReleased(hist.atEvent) /\ AllReleased(Cur))

\* the event fired after all seven steps ran, a timer having been armed
C6_Witness ==
    hist.eventFired = 1 /\ hist.log = TeardownOrder /\ ticks = 1

FailedCompletions == {"remote.async_connect", "remote.async_read_some",
                      "remote.async_write", "inbound.ReadAsync",
                      "outbound.ReadAsync", "outbound.WriteAsync",
                      "inbound.WriteAsync"}

\* C7: when a failed completion (or a pump completion that could not arm the
\* pump's next operation) reaches a Connection that is not disposed, the
\* Connection is disposed and torn down when that handler returns.
C7_FailureCloses ==
    LET l == hist.last
        notRearmed ==
            \/ l.op \in {"inbound.ReadAsync", "remote.async_write"} /\ PumpA = 0
            \/ l.op \in {"remote.async_read_some", "outbound.WriteAsync"} /\ PumpB = 0
    IN  (l.live /\ l.op \in FailedCompletions /\ (l.fault \/ notRearmed))
            => (disposed_ /\ hist.disposeRuns = 1)

\* a keep-alive write failed on a live Connection
C7_Witness ==
    /\ hist.last.op = "inbound.WriteAsync"
    /\ hist.last.live /\ hist.last.fault /\ disposed_

\* C8: when the resolver callback has run with a null endpoint, the Connection
\* is not left at rest without being disposed.
C8_NullEndpointDisposes ==
    (/\ hist.last.op = "resolver.async_resolve" /\ hist.last.fault
     /\ Quiescent) => disposed_

\* the configured endpoint, or the missing pieces, that make Listen() fail
ListenPrecondition ==
    /\ ~IsNone(Cur)
    /\ ~remote_
    /\ GetContext(Cur)
    /\ config.Domain \/ NewRemoteSocket(configuration_, TRUE, config.ep, TRUE)

\* C9: a Listen() that returns false on a Connection not yet listened on,
\* because a precondition does not hold, changes none of buffers_, resolver_,
\* remote_, available_, disposed_.
C9_FailedListenHasNoEffect ==
    [][(/\ ~disposed_ /\ ~buffers_ /\ ~ListenPrecondition
        /\ hist'.last.op = "Listen" /\ ~hist'.last.network /\ ~hist'.last.ret)
       => UNCHANGED <<buffers_, resolver_, remote_, available_, disposed_>>]_vars

\* C10: disposed_ never goes back to false, and a Listen, Close or Dispose
\* called when it is set changes nothing of the Connection, Listen returning
\* false.
C10_DisposedLatches ==
    [][/\ disposed_ => disposed_'
       /\ (disposed_ /\ hist'.last.op \in {"Listen", "Close", "Dispose"})
          => /\ UNCHANGED <<disposed_, available_, buffers_, inbound_, outbound_,
                            configuration_, remote_, resolver_, timeout_,
                            DisposedEvent, pending, timers, ticks>>
             /\ ~hist'.last.ret]_vars

\* Listen was called on a Connection whose Dispose had run
C10_Witness ==
    /\ disposed_ /\ hist.disposeRuns = 1
    /\ hist.last.op = "Listen" /\ ~hist.last.live

\* C11: within each direction reads and writes alternate: pump A never has an
\* inbound ReadAsync and a remote async_write outstanding together (nor two of
\* either), and pump B never has a remote async_read_some into buffers_
\* outstanding together with the outbound WriteAsync of buffers_.
C11_ReadsAndWritesAlternate ==
    /\ PumpA <= 1
    /\ PumpB <= 1

\* pump A is in its write half (the read was delivered and is not re-armed)
\* while pump B is in its read half, on a live Connection
C11_Witness ==
    /\ ~disposed_
    /\ hist.last.op = "inbound.ReadAsync"
    /\ pending["remote.async_write"] = 1 /\ pending["inbound.ReadAsync"] = 0
    /\ pending["remote.async_read_some"] = 1 /\ pending["outbound.WriteAsync"] = 0

(***************************************************************************)
(* Properties of the handshake                                             *)
(***************************************************************************)
\* (channelId << 32) | size
Packed(size, channelId) == [i \in 1 .. Int64Digits |->
                               IF i <= IntDigits THEN Int32(size)[i]
                               ELSE Int32(channelId)[i - IntDigits]]

\* Unpack was called on a whole block that Pack laid out for a valid pair
UnpackedValidBlock ==
    /\ hs.last.op = "Unpack"
    /\ hs.in.packed
    /\ hs.in.size \in 14 .. 65535
    /\ hs.in.channelId \in 1 .. 2147483647
    /\ hs.in.offset = 0
    /\ hs.in.length = hs.in.size

\* C12: for every size in [14, 65535] and channelId in [1, 2^31-1], and every
\* case of the twelve hexadecimal characters, Unpack of the block Pack lays
\* out for (size, channelId) returns (channelId << 32) | size.
C12_UnpackOfPack ==
    UnpackedValidBlock => hs.last.v = Packed(hs.in.size, hs.in.channelId)

\* nothing lay behind the arrays for strtoll to read
NoOverread == hs.last.beyond = [len |-> <<>>, id |-> <<>>]

\* the four characters at offset + 1 read as a number, and the eight at
\* offset + 5 with the size mask taken off
SizeField(buffer) == strtoll([j \in 1 .. 4 |-> buffer.bytes[1 + j]], <<>>)

ChannelIdField(buffer) ==
    Xor(strtoll([j \in 1 .. 8 |-> buffer.bytes[5 + j]], <<>>),
        Mask(SizeField(buffer)))

\* Unpack was called on a block, at offset 0, and read nothing behind its arrays
UnpackedBlock ==
    /\ hs.last.op = "Unpack"
    /\ ~hs.in.buffer.null
    /\ hs.in.offset = 0
    /\ NoOverread

\* C13: Unpack returns 0 for every input whose size field differs from the
\* length argument.
C13_LengthMismatchIsZero ==
    (UnpackedBlock /\ Small(SizeField(hs.in.buffer)) # hs.in.length)
        => hs.last.v = Zero(Int64Digits)

\* C14: Unpack returns 0 for every input whose size field is at most 13 and
\* for every input whose recovered channelId is zero.
C14_SmallOrZeroIdIsZero ==
    (/\ UnpackedBlock
     /\ \/ AtMost(SizeField(hs.in.buffer), 13)
        \/ ChannelIdField(hs.in.buffer) = Zero(Int64Digits))
        => hs.last.v = Zero(Int64Digits)

\* C15: HandshakeServer returns false, writes nothing and invokes no callback
\* for an alignment below 512 or a zero channelId, and every header it writes
\* has a size in [512, min(alignment, BufferSize)].
C15_ServerLowerBound512 ==
    hs.last.op = "HandshakeServer" =>
        /\ (hs.in.alignment < 512 \/ hs.in.channelId = 0)
              => (~hs.last.ret /\ hs.last.wrote = 0 /\ hs.last.cb = 0)
        /\ ~hs.wire.null
              => /\ hs.wire.size >= 512
                 /\ hs.wire.size <= hs.in.alignment
                 /\ hs.wire.size <= BufferSize

\* the frame the transport delivered to HandshakeClient's handler
Delivered == IF hs.wire.null THEN hs.in.buffer ELSE hs.wire

\* C16: per delivered read HandshakeClient invokes its callback once: with
\* (true, channelId) when the frame's length equals its size field (a size
\* above 13, as the format requires) and its channelId is not zero, and with
\* (false, 0) otherwise, a frame one byte short included.
C16_ClientCallback ==
    hs.last.op = "HandshakeClient.ReadAsync" =>
        /\ hs.last.cb = 1
        /\ IF Delivered.null \/ hs.last.length < 13
           THEN ~hs.last.success /\ hs.last.channelId = Zero(IntDigits)
           ELSE AtMost(SizeField(Delivered), 13)
                \/ IF /\ Small(SizeField(Delivered)) = hs.last.length
                      /\ ChannelIdField(Delivered) # Zero(Int64Digits)
                   THEN /\ hs.last.success
                        /\ hs.last.channelId = Low(ChannelIdField(Delivered))
                   ELSE ~hs.last.success /\ hs.last.channelId = Zero(IntDigits)

(***************************************************************************)
(* Properties of the keep-alive send cycle                                 *)
(***************************************************************************)
\* an established Connection with keep-alive that is not disposed
KeepAliveRunning ==
    ~disposed_ /\ ~crashed /\ available_ /\ configuration_ /\ config.KeepAlived

\* a timer tick on a live Connection issues exactly one inbound WriteAsync, or
\* (allocation or dispatch having failed) none and the Connection is closed
TickIssuesOneWrite ==
    (hist'.last.op = "timer" /\ hist'.last.live) =>
        IF disposed_'
        THEN pending'["inbound.WriteAsync"] = pending["inbound.WriteAsync"]
        ELSE pending'["inbound.WriteAsync"] = pending["inbound.WriteAsync"] + 1

\* a completed keep-alive write on a live Connection schedules exactly one new
\* timer, or (the write or the scheduling having failed) the Connection is closed
WriteSchedulesOneTimer ==
    (hist'.last.op = "inbound.WriteAsync" /\ hist'.last.live) =>
        IF hist'.last.fault \/ disposed_'
        THEN disposed_' /\ timers' = 0 /\ hist'.disposeRuns = 1
        ELSE timers' = timers + 1 /\ timers' = 1 /\ timeout_'

\* C17: with KeepAlived, every timer tick issues exactly one inbound WriteAsync
\* and every successful write completion schedules exactly one new timer, any
\* failure closing the Connection; so on an established Connection that is never
\* disposed a keep-alive write is issued again and again.
C17_KeepAliveForever ==
    /\ [][TickIssuesOneWrite /\ WriteSchedulesOneTimer]_vars
    /\ <>[]KeepAliveRunning
          => []<>(/\ hist.last.op = "timer" /\ hist.last.live
                  /\ pending["inbound.WriteAsync"] = 1)

\* the cycle has gone round: a keep-alive write completed and re-armed the timer
C17_Witness ==
    /\ KeepAliveRunning
    /\ hist.last.op = "inbound.WriteAsync" /\ ~hist.last.fault
    /\ timers = 1 /\ pending["inbound.WriteAsync"] = 0

(***************************************************************************)
(* Properties of the forwarded data                                        *)
(***************************************************************************)
\* C18: a block delivered by inbound.ReadAsync is used only while the
\* delivering callback runs: between handlers no operation of pump A reads it.
C18_BufferUsedOnlyInCallback == ~BorrowedInboundBuffer

\* C19: while the Connection is not disposed, every frame the remote socket
\* has written is the frame inbound delivered for it and every frame outbound
\* has written is the chunk read from remote for it; one write per frame, in
\* the order of delivery (C11), makes the sequences written prefixes of the
\* sequences delivered.
C19_ForwardedFramesIntact ==
    (/\ hist.last.op \in {"remote.async_write", "outbound.WriteAsync"}
     /\ hist.last.live /\ ~hist.last.fault)
        => hist.last.intact /\ C11_ReadsAndWritesAlternate

\* C20: on a Connection with a configuration that is not disposed and not
\* available, once establishment has finished (a remote socket is set and no
\* resolve or connect is outstanding) no pump and no keep-alive operation is
\* outstanding.
C20_NoHalfEstablished ==
    (/\ configuration_ /\ ~disposed_ /\ ~available_
     /\ buffers_ /\ remote_
     /\ pending["remote.async_connect"] = 0
     /\ pending["resolver.async_resolve"] = 0)
        => /\ PumpA = 0 /\ PumpB = 0
           /\ pending["outbound.ReadAsync"] = 0
           /\ pending["inbound.WriteAsync"] = 0
           /\ timers = 0

(***************************************************************************)
(* Disposal                                                                *)
(***************************************************************************)
\* Dispose has run its body and has returned to its caller
DisposeReturned ==
    /\ disposed_
    /\ hist.disposeRuns = 1
    /\ \A t \in Callers : pc[t] = "idle"

\* this step is a callback of the Connection: a completion that its closed
\* transport, closed socket or cancelled resolver faults, or a timer handler
LateCallback ==
    /\ DisposeReturned
    /\ \/ hist'.last.op \in Ops /\ hist'.last.fault
       \/ hist'.last.op = "timer"

\* the callback starts no operation, arms no timer, changes no field
CallbackIsNoOp ==
    /\ \A op \in Ops : pending'[op] <= pending[op]
    /\ timers' <= timers
    /\ ticks' <= ticks
    /\ UNCHANGED <<disposed_, available_, buffers_, inbound_, outbound_,
                   configuration_, remote_, resolver_, timeout_, DisposedEvent>>

\* every callback outstanding at disposal fires and nothing that holds a
\* Reference (an operation, an armed timer, an expired timer) is left
DisposalQuiesces == disposed_ ~> [](disposed_ /\ Quiescent)

\* C21: after Dispose every outstanding callback of the Connection eventually
\* fires, none of them starts an operation, arms a timer or changes a field of
\* the Connection, and eventually no operation, no timer and no Reference held
\* by a callback remains.
C21_DisposalLeadsToQuiescence ==
    /\ [][LateCallback => CallbackIsNoOp]_vars
    /\ DisposalQuiesces

====
